---------------------------- MODULE Spec2Model ----------------------------
(***************************************************************************)
(* Model of the persistent document store of resume_manager.py: the        *)
(* atomic-write protocol (atomic_save), the load/retry/recovery state      *)
(* machine (load_data) and the CRUD operations built on them, run by       *)
(* threads that share one file and one lock (file_lock).                   *)
(*                                                                         *)
(* Python values are tagged pairs <<tag, payload>>.  A Python string is a  *)
(* sequence of chunks: the chunk " " is one whitespace character, any      *)
(* other chunk is an opaque run of non-whitespace characters.  A dict is   *)
(* its sequence of <<key, value>> pairs in insertion order.  The file      *)
(* holds the sequence of JSON tokens that json.dump writes.                *)
(***************************************************************************)
EXTENDS Integers, Sequences, FiniteSets, TLC

(***************************************************************************)
(* Bounds of the model and constants of the program.                       *)
(***************************************************************************)
MaxCalls == 2
MaxCallsSeq == 3
max_attempts == 8
retries == 6

Threads == {1, 2}

(***************************************************************************)
(* Python values.                                                          *)
(***************************************************************************)
S(w) == <<w>>
EmptyStr == <<>>
PStr(s) == <<"str", s>>
PInt(n) == <<"int", n>>
PBool(b) == <<"bool", b>>
PNone == <<"none", "null">>
PList(xs) == <<"list", xs>>
PDict(ps) == <<"dict", ps>>

Tag(v) == v[1]
Val(v) == v[2]
IsDict(v) == Tag(v) = "dict"
IsList(v) == Tag(v) = "list"
IsStr(v) == Tag(v) = "str"

\* str.strip(): drop the leading and the trailing whitespace.
RECURSIVE LStrip(_)
LStrip(s) == IF s # <<>> /\ Head(s) = " " THEN LStrip(Tail(s)) ELSE s

RECURSIVE RStrip(_)
RStrip(s) ==
    IF s # <<>> /\ s[Len(s)] = " " THEN RStrip(SubSeq(s, 1, Len(s) - 1)) ELSE s

Strip(s) == RStrip(LStrip(s))

\* (x or "").strip() for x a str or None.
OrEmptyStrip(x) == IF Tag(x) = "str" THEN Strip(Val(x)) ELSE EmptyStr

\* Position of key k in the pair sequence ps, 0 when absent.
KeyPos(ps, k) ==
    IF \E i \in 1..Len(ps) : ps[i][1] = k
    THEN CHOOSE i \in 1..Len(ps) : ps[i][1] = k /\ \A j \in 1..(i - 1) : ps[j][1] # k
    ELSE 0

\* k in d
Has(d, k) == KeyPos(Val(d), k) # 0
\* d[k]
Get(d, k) == Val(d)[KeyPos(Val(d), k)][2]
\* d[k] = v: an existing key keeps its position, a new key goes last.
Put(d, k, v) ==
    IF Has(d, k)
    THEN PDict([Val(d) EXCEPT ![KeyPos(Val(d), k)] = <<k, v>>])
    ELSE PDict(Append(Val(d), <<k, v>>))
\* del d[k]
Del(d, k) ==
    LET p == KeyPos(Val(d), k)
    IN  PDict(SubSeq(Val(d), 1, p - 1) \o SubSeq(Val(d), p + 1, Len(Val(d))))
Keys(d) == {Val(d)[i][1] : i \in 1..Len(Val(d))}

\* dict and list equality of Python: dicts compare as mappings, lists by position.
RECURSIVE PyEq(_, _)
PyEq(a, b) ==
    IF Tag(a) # Tag(b) THEN FALSE
    ELSE IF IsDict(a)
         THEN /\ Keys(a) = Keys(b)
              /\ Len(Val(a)) = Len(Val(b))
              /\ \A k \in Keys(a) : PyEq(Get(a, k), Get(b, k))
    ELSE IF IsList(a)
         THEN /\ Len(Val(a)) = Len(Val(b))
              /\ \A i \in 1..Len(Val(a)) : PyEq(Val(a)[i], Val(b)[i])
    ELSE a = b

(***************************************************************************)
(* json.dump: the token sequence written for a value.                      *)
(***************************************************************************)
P(c) == <<"p", c>>

RECURSIVE JsonDump(_), DumpMembers(_), DumpElems(_)
JsonDump(v) ==
    CASE Tag(v) = "dict" -> <<P("{")>> \o DumpMembers(Val(v)) \o <<P("}")>>
      [] Tag(v) = "list" -> <<P("[")>> \o DumpElems(Val(v)) \o <<P("]")>>
      [] Tag(v) = "str"  -> << <<"s", Val(v)>> >>
      [] Tag(v) = "int"  -> << <<"n", Val(v)>> >>
      [] Tag(v) = "bool" -> << <<"k", IF Val(v) THEN "true" ELSE "false">> >>
      [] Tag(v) = "none" -> << <<"k", "null">> >>

DumpMembers(ps) ==
    IF ps = <<>> THEN <<>>
    ELSE << <<"s", ps[1][1]>>, P(":") >> \o JsonDump(ps[1][2])
         \o (IF Len(ps) > 1 THEN <<P(",")>> \o DumpMembers(Tail(ps)) ELSE <<>>)

DumpElems(xs) ==
    IF xs = <<>> THEN <<>>
    ELSE JsonDump(xs[1])
         \o (IF Len(xs) > 1 THEN <<P(",")>> \o DumpElems(Tail(xs)) ELSE <<>>)

(***************************************************************************)
(* json.load: a recursive-descent parse of a token sequence.  The result   *)
(* is [ok, val, next]; ok = FALSE is json.JSONDecodeError.                 *)
(***************************************************************************)
ParseFail == [ok |-> FALSE, val |-> PNone, next |-> 0]
ParseOk(v, n) == [ok |-> TRUE, val |-> v, next |-> n]
TokAt(ts, i) == IF i <= Len(ts) THEN ts[i] ELSE <<"eof", "eof">>

RECURSIVE ParseValue(_, _), ParseMembers(_, _, _), ParseElems(_, _, _)
ParseValue(ts, i) ==
    LET t == TokAt(ts, i)
    IN  CASE t[1] = "s" -> ParseOk(PStr(t[2]), i + 1)
          [] t[1] = "n" -> ParseOk(PInt(t[2]), i + 1)
          [] t[1] = "k" -> ParseOk(IF t[2] = "null" THEN PNone ELSE PBool(t[2] = "true"), i + 1)
          [] t = P("{") -> IF TokAt(ts, i + 1) = P("}")
                           THEN ParseOk(PDict(<<>>), i + 2)
                           ELSE ParseMembers(ts, i + 1, PDict(<<>>))
          [] t = P("[") -> IF TokAt(ts, i + 1) = P("]")
                           THEN ParseOk(PList(<<>>), i + 2)
                           ELSE ParseElems(ts, i + 1, <<>>)
          [] OTHER -> ParseFail

\* Members after "{" or ",": "key" : value, then "," or "}".
ParseMembers(ts, i, acc) ==
    IF TokAt(ts, i)[1] # "s" \/ TokAt(ts, i + 1) # P(":") THEN ParseFail
    ELSE LET r == ParseValue(ts, i + 2)
         IN  IF ~r.ok THEN ParseFail
             ELSE LET d == Put(acc, TokAt(ts, i)[2], r.val)
                  IN  IF TokAt(ts, r.next) = P(",") THEN ParseMembers(ts, r.next + 1, d)
                      ELSE IF TokAt(ts, r.next) = P("}") THEN ParseOk(d, r.next + 1)
                      ELSE ParseFail

ParseElems(ts, i, acc) ==
    LET r == ParseValue(ts, i)
    IN  IF ~r.ok THEN ParseFail
        ELSE IF TokAt(ts, r.next) = P(",") THEN ParseElems(ts, r.next + 1, Append(acc, r.val))
        ELSE IF TokAt(ts, r.next) = P("]") THEN ParseOk(PList(Append(acc, r.val)), r.next + 1)
        ELSE ParseFail

\* json.load(f): one value and nothing after it.
JsonLoad(ts) ==
    LET r == ParseValue(ts, 1)
    IN  IF r.ok /\ r.next = Len(ts) + 1 THEN r ELSE ParseFail


(***************************************************************************)
(* Python built-ins the operations use.                                    *)
(***************************************************************************)
\* bool(x)
Truthy(x) ==
    CASE Tag(x) = "none" -> FALSE
      [] Tag(x) = "bool" -> Val(x)
      [] Tag(x) = "int"  -> Val(x) # 0
      [] OTHER           -> Val(x) # <<>>

Digits == {"0", "1", "2", "3", "4", "5", "6", "7", "8", "9"}
DigitVal(c) == CHOOSE n \in 0..9 : <<"0", "1", "2", "3", "4", "5", "6", "7", "8", "9">>[n + 1] = c

RECURSIVE DecimalVal(_)
DecimalVal(s) ==
    IF s = <<>> THEN 0
    ELSE 10 * DecimalVal(SubSeq(s, 1, Len(s) - 1)) + DigitVal(s[Len(s)])

\* int(x): [ok, val]; ok = FALSE is the TypeError or ValueError int() raises.
PyInt(x) ==
    CASE Tag(x) = "int"  -> [ok |-> TRUE, val |-> Val(x)]
      [] Tag(x) = "bool" -> [ok |-> TRUE, val |-> IF Val(x) THEN 1 ELSE 0]
      [] Tag(x) = "str"  ->
            LET s == Strip(Val(x))
            IN  IF s # <<>> /\ \A i \in 1..Len(s) : s[i] \in Digits
                THEN [ok |-> TRUE, val |-> DecimalVal(s)]
                ELSE [ok |-> FALSE, val |-> 0]
      [] OTHER -> [ok |-> FALSE, val |-> 0]

\* del items[index] on a list of n items: the position removed (1-based), 0 for
\* IndexError.  A negative index counts from the end.
DelPos(n, index) ==
    IF 0 <= index /\ index < n THEN index + 1
    ELSE IF index < 0 /\ -n <= index THEN n + index + 1
    ELSE 0

RemoveAt(xs, p) == SubSeq(xs, 1, p - 1) \o SubSeq(xs, p + 1, Len(xs))

\* d.get(k, dflt)
GetOr(d, k, dflt) == IF Has(d, k) THEN Get(d, k) ELSE dflt

\* datetime.date.today().isoformat() and datetime.datetime.now().isoformat()
Today == PStr(S("today"))
Now == PStr(S("now"))

(***************************************************************************)
(* The document.                                                           *)
(***************************************************************************)
K_pd == S("personal_details")
K_cats == S("categories")
K_settings == S("settings")
K_columns == S("columns")
K_separator == S("separator")

DefaultSettings == PDict(<< <<K_columns, PInt(2)>>, <<K_separator, PBool(TRUE)>> >>)

default_structure ==
    PDict(<< <<K_pd, PDict(<<>>)>>, <<K_cats, PDict(<<>>)>>, <<K_settings, DefaultSettings>> >>)

\* `k in raw` for the value json.load returned: "yes", "no" or "TypeError".
In(k, raw) ==
    CASE Tag(raw) = "dict" -> IF Has(raw, k) THEN "yes" ELSE "no"
      [] Tag(raw) = "list" ->
            IF \E i \in 1..Len(Val(raw)) : Val(raw)[i] = PStr(k) THEN "yes" ELSE "no"
      [] Tag(raw) = "str" ->
            IF \E i \in 0..(Len(Val(raw)) - Len(k)) : SubSeq(Val(raw), i + 1, i + Len(k)) = k
            THEN "yes" ELSE "no"
      [] OTHER -> "TypeError"

\* One `if k not in raw` of load_data that, for a missing key, throws the
\* rest of the document away.
FillKeyDiscards(r, k, dflt) ==
    IF r.exc # "" THEN r
    ELSE IF In(k, r.val) = "TypeError" THEN [exc |-> "TypeError", val |-> r.val]
    ELSE IF In(k, r.val) = "yes" THEN r
    ELSE [exc |-> "", val |-> PDict(<< <<k, dflt>> >>)]

\* One `if k not in raw: raw[k] = dflt` of load_data, on [exc, val].
FillKey(r, k, dflt) ==
    IF r.exc # "" THEN r
    ELSE IF In(k, r.val) = "TypeError" THEN [exc |-> "TypeError", val |-> r.val]
    ELSE IF In(k, r.val) = "yes" THEN r
    ELSE IF IsDict(r.val) THEN [exc |-> "", val |-> Put(r.val, k, dflt)]
    ELSE [exc |-> "TypeError", val |-> r.val]

\* Normalize with the `not in` tests lost: every key is reset to its default.
NormalizeOverwrites(raw) ==
    IF IsDict(raw)
    THEN [exc |-> "", val |-> Put(Put(Put(raw, K_settings, DefaultSettings),
                                      K_pd, PDict(<<>>)), K_cats, PDict(<<>>))]
    ELSE [exc |-> "TypeError", val |-> raw]

\* Lines 98-104 of load_data: the missing top-level keys get their defaults.
Normalize(raw) ==
    FillKey(FillKey(FillKey([exc |-> "", val |-> raw], K_settings, DefaultSettings),
                    K_pd, PDict(<<>>)),
            K_cats, PDict(<<>>))

(***************************************************************************)
(* The operations of the Document Service, from the point where load_data  *)
(* has returned document d: what the operation does next.  The result is   *)
(* [kind, doc, ret]: kind "save" calls atomic_save(doc) and returns ret    *)
(* after it, "return" returns ret at once, "raise" raises ret.             *)
(***************************************************************************)
DoSave(doc, r) == [kind |-> "save", doc |-> doc, ret |-> r]
DoReturn(r) == [kind |-> "return", doc |-> PNone, ret |-> r]
DoRaise(e) == [kind |-> "raise", doc |-> PNone, ret |-> e]

\* data.setdefault("categories", {})
WithCats(d) == IF Has(d, K_cats) THEN d ELSE Put(d, K_cats, PDict(<<>>))

\* The dict norm of set_personal_details.
ProfileFields == <<S("name"), S("email"), S("phone"), S("address"), S("dob"), S("summary")>>

NormProfile(details) ==
    PDict([i \in 1..6 |-> <<ProfileFields[i],
                            PStr(OrEmptyStrip(GetOr(details, ProfileFields[i], PNone)))>>]
          \o << <<S("updated_at"), Today>> >>)

\* set_personal_details that stores the fields as they were submitted.
set_personal_details_as_given(details, d) ==
    DoSave(Put(d, K_pd, details), PNone)

set_personal_details(details, d) ==
    DoSave(Put(d, K_pd, NormProfile(details)), PNone)

\* add_category with the duplicate test after the assignment and the save.
add_category_late_check(name, d) ==
    LET n == OrEmptyStrip(name)
        cats == Get(WithCats(d), K_cats)
    IN  DoSave(Put(WithCats(d), K_cats, Put(cats, n, PList(<<>>))), PBool(~Has(cats, n)))

\* add_category that looks the name up as it was given, before the strip.
add_category_raw_name(name, d) ==
    LET n == OrEmptyStrip(name)
        cats == Get(WithCats(d), K_cats)
    IN  IF IsStr(name) /\ Has(cats, Val(name)) THEN DoReturn(PBool(FALSE))
        ELSE DoSave(Put(WithCats(d), K_cats, Put(cats, n, PList(<<>>))), PBool(TRUE))

add_category(name, d) ==
    LET n == OrEmptyStrip(name)
        cats == Get(WithCats(d), K_cats)
    IN  IF Has(cats, n) THEN DoReturn(PBool(FALSE))
        ELSE DoSave(Put(WithCats(d), K_cats, Put(cats, n, PList(<<>>))), PBool(TRUE))

\* delete_category that empties the category and keeps its key.
delete_category_keeps_key(name, d) ==
    LET cats == GetOr(d, K_cats, PDict(<<>>))
    IN  IF IsStr(name) /\ Has(cats, Val(name))
        THEN DoSave(Put(d, K_cats, Put(cats, Val(name), PList(<<>>))), PBool(TRUE))
        ELSE DoReturn(PBool(FALSE))

delete_category(name, d) ==
    LET cats == GetOr(d, K_cats, PDict(<<>>))
    IN  IF IsStr(name) /\ Has(cats, Val(name))
        THEN DoSave(Put(d, K_cats, Del(cats, Val(name))), PBool(TRUE))
        ELSE DoReturn(PBool(FALSE))

NewEntry(name, link, date) ==
    PDict(<< <<S("name"), PStr(OrEmptyStrip(name))>>,
             <<S("link"), IF OrEmptyStrip(link) = EmptyStr THEN PNone
                          ELSE PStr(OrEmptyStrip(link))>>,
             <<S("date"), IF OrEmptyStrip(date) = EmptyStr THEN Today
                          ELSE PStr(OrEmptyStrip(date))>>,
             <<S("created_at"), Now>> >>)

\* add_entry that creates the category when it is no key.
add_entry_autocreate(category, name, link, date, d) ==
    LET c == OrEmptyStrip(category)
        cats == Get(WithCats(d), K_cats)
        items == IF Has(cats, c) THEN Val(Get(cats, c)) ELSE <<>>
    IN  IF OrEmptyStrip(name) = EmptyStr THEN DoReturn(PBool(FALSE))
        ELSE DoSave(Put(WithCats(d), K_cats,
                        Put(cats, c, PList(Append(items, NewEntry(name, link, date))))),
                    PBool(TRUE))

\* add_entry that puts the new entry first.
add_entry_prepends(category, name, link, date, d) ==
    LET c == OrEmptyStrip(category)
        cats == Get(WithCats(d), K_cats)
    IN  IF ~Has(cats, c) THEN DoReturn(PBool(FALSE))
        ELSE IF OrEmptyStrip(name) = EmptyStr THEN DoReturn(PBool(FALSE))
        ELSE DoSave(Put(WithCats(d), K_cats,
                        Put(cats, c, PList(<<NewEntry(name, link, date)>>
                                           \o Val(Get(cats, c))))),
                    PBool(TRUE))

\* add_entry with the name test before the strip.
add_entry_unstripped_test(category, name, link, date, d) ==
    LET c == OrEmptyStrip(category)
        cats == Get(WithCats(d), K_cats)
    IN  IF ~Has(cats, c) THEN DoReturn(PBool(FALSE))
        ELSE IF ~Truthy(name) THEN DoReturn(PBool(FALSE))
        ELSE DoSave(Put(WithCats(d), K_cats,
                        Put(cats, c, PList(Append(Val(Get(cats, c)),
                                                  NewEntry(name, link, date))))),
                    PBool(TRUE))

add_entry(category, name, link, date, d) ==
    LET c == OrEmptyStrip(category)
        cats == Get(WithCats(d), K_cats)
    IN  IF ~Has(cats, c) THEN DoReturn(PBool(FALSE))
        ELSE IF OrEmptyStrip(name) = EmptyStr THEN DoReturn(PBool(FALSE))
        ELSE DoSave(Put(WithCats(d), K_cats,
                        Put(cats, c, PList(Append(Val(Get(cats, c)),
                                                  NewEntry(name, link, date))))),
                    PBool(TRUE))

\* delete_entry that deletes from the index to the end (`del items[index:]`).
delete_entry_truncates(category, index, d) ==
    LET cats == GetOr(d, K_cats, PDict(<<>>))
        c == OrEmptyStrip(category)
        items == GetOr(cats, c, PNone)
    IN  IF ~Truthy(items) THEN DoReturn(PBool(FALSE))
        ELSE IF DelPos(Len(Val(items)), index) = 0 THEN DoReturn(PBool(FALSE))
        ELSE DoSave(Put(d, K_cats,
                        Put(cats, c, PList(SubSeq(Val(items), 1,
                                                  DelPos(Len(Val(items)), index) - 1)))),
                    PBool(TRUE))

delete_entry(category, index, d) ==
    LET cats == GetOr(d, K_cats, PDict(<<>>))
        c == OrEmptyStrip(category)
        items == GetOr(cats, c, PNone)
    IN  IF ~Truthy(items) THEN DoReturn(PBool(FALSE))
        ELSE IF DelPos(Len(Val(items)), index) = 0 THEN DoReturn(PBool(FALSE))
        ELSE DoSave(Put(d, K_cats,
                        Put(cats, c, PList(RemoveAt(Val(items),
                                                    DelPos(Len(Val(items)), index))))),
                    PBool(TRUE))

\* set_settings that takes the default, not the stored value, for a field
\* the partial settings omit.
set_settings_defaults_absent(new_settings, d) ==
    LET dd == IF Has(d, K_settings) THEN d ELSE Put(d, K_settings, DefaultSettings)
        settings == Get(dd, K_settings)
        c == PyInt(GetOr(new_settings, K_columns, PInt(2)))
        columns == IF c.val \in {1, 2} THEN c.val ELSE 2
        separator == Truthy(GetOr(new_settings, K_separator, PBool(TRUE)))
    IN  IF ~c.ok THEN DoRaise("ValueError")
        ELSE DoSave(Put(dd, K_settings,
                        Put(Put(settings, K_columns, PInt(columns)),
                            K_separator, PBool(separator))),
                    PNone)

set_settings(new_settings, d) ==
    LET dd == IF Has(d, K_settings) THEN d ELSE Put(d, K_settings, DefaultSettings)
        settings == Get(dd, K_settings)
        c == PyInt(GetOr(new_settings, K_columns, GetOr(settings, K_columns, PInt(2))))
        columns == IF c.val \in {1, 2} THEN c.val ELSE 2
        separator == Truthy(GetOr(new_settings, K_separator,
                                  GetOr(settings, K_separator, PBool(TRUE))))
    IN  IF ~c.ok THEN DoRaise("ValueError")
        ELSE DoSave(Put(dd, K_settings,
                        Put(Put(settings, K_columns, PInt(columns)),
                            K_separator, PBool(separator))),
                    PNone)

\* An operation is [fn, a]: the function called and its arguments.
Mutate(o, d) ==
    CASE o.fn = "load_data"            -> DoReturn(d)
      [] o.fn = "set_personal_details" -> set_personal_details(o.a[1], d)
      [] o.fn = "add_category"         -> add_category(o.a[1], d)
      [] o.fn = "delete_category"      -> delete_category(o.a[1], d)
      [] o.fn = "add_entry"            -> add_entry(o.a[1], o.a[2], o.a[3], o.a[4], d)
      [] o.fn = "delete_entry"         -> delete_entry(o.a[1], o.a[2], d)
      [] o.fn = "set_settings"         -> set_settings(o.a[1], d)

\* The checks an operation makes before it calls load_data: TRUE when it
\* returns False without loading.
RejectsBeforeLoad(o) ==
    \/ o.fn = "add_category" /\ OrEmptyStrip(o.a[1]) = EmptyStr
    \/ o.fn = "add_entry" /\ OrEmptyStrip(o.a[1]) = EmptyStr

\* Whether the operation catches an exception of its own atomic_save call
\* (delete_entry's `except Exception: return False`).
CatchesSaveError(o) == o.fn = "delete_entry"

(***************************************************************************)
(* The inputs the threads draw their calls from.                           *)
(***************************************************************************)
Op(fn, a) == [fn |-> fn, a |-> a]
NoOp == Op("none", <<>>)
Str(w) == PStr(S(w))
Blank == PStr(<<" ">>)

EntryOps ==
    { Op("add_entry", <<Str("X"), Str("A"), PNone, PNone>>),
      Op("add_entry", <<PStr(<<" ", "X">>), PStr(<<"B", " ">>), Str("L"), Str("D")>>) }

\* Calls made while two threads run.
ConcOps ==
    EntryOps \cup
    { Op("load_data", <<>>),
      Op("add_category", <<Str("X")>>) }

\* Calls made by a thread that runs alone.
SeqOps ==
    ConcOps \cup
    { Op("add_category", <<PStr(<<" ", "Y", " ">>)>>),
      Op("add_category", <<Blank>>),
      Op("delete_category", <<Str("X")>>),
      Op("add_entry", <<Str("X"), Blank, Str("L"), PNone>>),
      Op("add_entry", <<Blank, Str("A"), PNone, PNone>>),
      Op("add_entry", <<Str("Y"), Str("A"), Blank, Blank>>),
      Op("delete_entry", <<Str("X"), 0>>),
      Op("delete_entry", <<Str("X"), 1>>),
      Op("delete_entry", <<Str("X"), -1>>),
      Op("delete_entry", <<Str("X"), 99>>),
      Op("set_settings", <<PDict(<< <<K_columns, PInt(1)>> >>)>>),
      Op("set_settings", <<PDict(<< <<K_columns, PInt(7)>>, <<K_separator, Str("yes")>> >>)>>),
      Op("set_settings", <<PDict(<< <<K_separator, PBool(FALSE)>> >>)>>),
      Op("set_settings", <<PDict(<< <<K_columns, Str("abc")>> >>)>>),
      Op("set_personal_details", <<PDict(<< <<S("name"), PStr(<<" ", "N", " ">>)>> >>)>>),
      Op("atomic_save", <<PDict(<<>>)>>),
      Op("atomic_save", <<PDict(<< <<K_cats, PDict(<< <<S("Y"), PList(<<>>)>> >>)>> >>)>>) }

(***************************************************************************)
(* Files.  A file is [exists, bytes]; bytes is its token sequence.         *)
(***************************************************************************)
NoFile == [exists |-> FALSE, bytes |-> <<>>]
FileOf(ts) == [exists |-> TRUE, bytes |-> ts]

EntryA == NewEntry(Str("A"), PNone, PNone)
EntryB == NewEntry(PStr(<<"B", " ">>), Str("L"), Str("D"))
\* An entry the file holds from an earlier run: its created_at is not the
\* time of this one.
EntryC == Put(NewEntry(Str("C"), PNone, Str("D")), S("created_at"), Str("then"))

\* Contents the file may hold when the program starts: a valid document with
\* category X, a document with category X alone and no settings or profile
\* key, bytes that are not JSON, and JSON whose root is a list.
DocWithX == Put(default_structure, K_cats, PDict(<< <<S("X"), PList(<<EntryC>>)>> >>))
DocPartial == PDict(<< <<K_cats, PDict(<< <<S("X"), PList(<<EntryC>>)>> >>)>> >>)
Garbage == <<P("{"), <<"s", K_cats>>>>
ListRoot == JsonDump(PList(<<>>))

InitFiles ==
    { NoFile, FileOf(JsonDump(DocWithX)), FileOf(JsonDump(DocPartial)),
      FileOf(Garbage), FileOf(ListRoot) }

(***************************************************************************)
(* State.                                                                  *)
(***************************************************************************)
VARIABLES
    file,       \* SAVE_PATH
    tmp,        \* tmp[t]: the temporary file of thread t's atomic_save
    backups,    \* the contents of the corrupt_backup_*.json files
    lock,       \* file_lock: 0 when free, else the thread holding it
    th,         \* th[t]: the locals of thread t
    calls,      \* calls started so far
    nthreads,   \* threads that run
    hist        \* when one thread runs alone: the file as its call found it,
                \* the document of the last atomic_save that succeeded, and
                \* whether a temporary file of an ended atomic_save is left

vars == <<file, tmp, backups, lock, th, calls, nthreads, hist>>

NoRet == <<"none", "none">>
Returned(v) == <<"ret", v>>
Raised(e) == <<"raise", e>>

IdleThread ==
    [pc |-> "idle", op |-> NoOp, data |-> PNone, ctx |-> "none", pend |-> PNone,
     exc |-> "none", ret |-> NoRet, attempt |-> 0, attempts |-> 0]

Active == 1..nthreads

Init ==
    /\ file \in InitFiles
    /\ tmp = [t \in Threads |-> NoFile]
    /\ backups = {}
    /\ lock = 0
    /\ th = [t \in Threads |-> IdleThread]
    /\ calls = 0
    /\ nthreads \in Threads
    /\ hist = [before |-> NoFile, saved |-> PNone, left |-> FALSE]

\* The operation returns or raises res.
Finish(r, res) == [IdleThread EXCEPT !.op = r.op, !.ret = res]

\* load_data has returned d to the operation.
AfterLoad(r, d) ==
    LET m == Mutate(r.op, d)
    IN  CASE m.kind = "save"   -> [r EXCEPT !.pc = "s_acq", !.data = m.doc, !.ctx = "op",
                                            !.pend = m.ret, !.attempt = 0, !.attempts = 0,
                                            !.exc = "none"]
          [] m.kind = "return" -> Finish(r, Returned(m.ret))
          [] m.kind = "raise"  -> Finish(r, Raised(m.ret))

\* LoadRetry with one attempt too many.
LoadRetryOneMore(r) ==
    IF r.attempt + 1 <= retries
    THEN [r EXCEPT !.pc = "l_exists", !.attempt = @ + 1]
    ELSE AfterLoad(r, default_structure)

\* Lines 105-119: load_data caught an exception that is no JSONDecodeError;
\* it sleeps and goes round the loop, or leaves it after the last attempt.
LoadRetry(r) ==
    IF r.attempt + 1 < retries
    THEN [r EXCEPT !.pc = "l_exists", !.attempt = @ + 1]
    ELSE AfterLoad(r, default_structure)

\* Line 105, not a JSONDecodeError: load_data goes to sleep (line 117).
Caught(r) ==
    [r EXCEPT !.pc = "l_sleep", !.data = PNone, !.ctx = "none", !.attempts = 0,
              !.exc = "none"]

\* atomic_save has returned normally.
AfterSave(r) ==
    IF r.ctx = "op" THEN Finish(r, Returned(r.pend)) ELSE AfterLoad(r, r.data)

\* atomic_save has raised e.
AfterSaveRaise(r, e) ==
    CASE r.ctx = "boot"    -> Caught(r)
      [] r.ctx = "recover" -> Finish(r, Raised(e))
      [] r.ctx = "op"      -> IF CatchesSaveError(r.op) THEN Finish(r, Returned(PBool(FALSE)))
                              ELSE Finish(r, Raised(e))

(***************************************************************************)
(* Actions.  Steps that touch only a thread's locals are taken together    *)
(* with the step on shared state (the file, the lock) that precedes them.  *)
(***************************************************************************)
Set(t, r) == th' = [th EXCEPT ![t] = r]

CallBudget == IF nthreads = 1 THEN MaxCallsSeq ELSE MaxCalls
Inputs == IF nthreads = 1 THEN SeqOps ELSE ConcOps

\* A thread calls an operation.  The operation returns False before loading,
\* or calls load_data (line 87), whose loop starts at attempt 0.  The threads
\* are alike: they are numbered in the order of their first calls.
Call(t) ==
    /\ t \in Active
    /\ \A u \in 1..(t - 1) : th[u].op # NoOp
    /\ th[t].pc = "idle"
    /\ calls < CallBudget
    /\ \E o \in Inputs :
          Set(t, IF RejectsBeforeLoad(o)
                 THEN Finish([th[t] EXCEPT !.op = o], Returned(PBool(FALSE)))
                 ELSE IF o.fn = "atomic_save"
                 THEN [IdleThread EXCEPT !.op = o, !.pc = "s_acq", !.data = o.a[1],
                                         !.ctx = "op"]
                 ELSE [IdleThread EXCEPT !.op = o, !.pc = "l_exists"])
    /\ calls' = calls + 1
    /\ hist' = IF nthreads = 1 THEN [hist EXCEPT !.before = file] ELSE hist
    /\ UNCHANGED <<file, tmp, backups, lock, nthreads>>

\* Line 91: `if not SAVE_PATH.exists()`, made without the lock.  With no file
\* load_data calls atomic_save(default_structure()) (lines 92-93).
LoadExists(t) ==
    /\ th[t].pc = "l_exists"
    /\ Set(t, IF file.exists
              THEN [th[t] EXCEPT !.pc = "l_acq"]
              ELSE [th[t] EXCEPT !.pc = "s_acq", !.data = default_structure, !.ctx = "boot"])
    /\ UNCHANGED <<file, tmp, backups, lock, calls, nthreads, hist>>

\* A lock that never makes its caller wait.
CanAcquireAlways(holder) == TRUE

\* threading.Lock.acquire: the caller waits until no thread holds the lock.
CanAcquire(holder) == holder = 0

\* Line 95: `with file_lock`.
LoadAcquire(t) ==
    /\ th[t].pc = "l_acq"
    /\ CanAcquire(lock)
    /\ lock' = t
    /\ Set(t, [th[t] EXCEPT !.pc = "l_open"])
    /\ UNCHANGED <<file, tmp, backups, calls, nthreads, hist>>

\* LoadOpenFail in which the exception leaves the lock held.
LoadOpenFailKeepsLock(t) ==
    /\ th[t].pc = "l_open"
    /\ Set(t, Caught(th[t]))
    /\ UNCHANGED <<file, tmp, backups, lock, calls, nthreads, hist>>

\* Lines 95-96 raise PermissionError or OSError: the `with` releases the lock.
LoadOpenFail(t) ==
    /\ th[t].pc = "l_open"
    /\ lock' = 0
    /\ Set(t, Caught(th[t]))
    /\ UNCHANGED <<file, tmp, backups, calls, nthreads, hist>>

\* Lines 117-119: after the sleep the loop goes on, or has run out and
\* load_data returns default_structure().
LoadSleep(t) ==
    /\ th[t].pc = "l_sleep"
    /\ Set(t, LoadRetry(th[t]))
    /\ UNCHANGED <<file, tmp, backups, lock, calls, nthreads, hist>>

\* What lines 96-104 make of the bytes read: "corrupt" is JSONDecodeError,
\* "TypeError" escapes load_data, "ok" returns the normalized document.
ReadResult(bytes) ==
    LET p == JsonLoad(bytes)
        n == Normalize(p.val)
    IN  IF ~p.ok THEN [kind |-> "corrupt", val |-> PNone]
        ELSE IF n.exc # "" THEN [kind |-> n.exc, val |-> PNone]
        ELSE [kind |-> "ok", val |-> n.val]

\* Lines 95-104: the file is opened, parsed and normalized under the lock.
LoadRead(t) ==
    /\ th[t].pc = "l_open"
    /\ lock' = 0
    /\ LET r == ReadResult(file.bytes)
       IN  Set(t, CASE r.kind = "ok"      -> AfterLoad(th[t], r.val)
                    [] r.kind = "corrupt" -> [th[t] EXCEPT !.pc = "l_backup"]
                    [] OTHER              -> Finish(th[t], Raised(r.kind)))
    /\ UNCHANGED <<file, tmp, backups, calls, nthreads, hist>>

\* The name of a backup holds the time to the second: a copy made in the
\* second of an earlier one overwrites it, a later one adds a file.
BackupCopy(bs, bytes) ==
    {bs \cup {bytes}} \cup {(bs \ {b}) \cup {bytes} : b \in bs}

\* LoadBackup in which a copy that fails sends load_data round its loop.
LoadBackupAborts(t) ==
    /\ th[t].pc = "l_backup"
    /\ \/ /\ backups' \in BackupCopy(backups, file.bytes)
          /\ Set(t, [th[t] EXCEPT !.pc = "s_acq", !.data = default_structure,
                                  !.ctx = "recover"])
       \/ /\ backups' = backups
          /\ Set(t, Caught(th[t]))
    /\ UNCHANGED <<file, tmp, lock, calls, nthreads, hist>>

\* Lines 107-114: shutil.copy2 of the file as it is now, made without the
\* lock; a copy that fails is logged.  Then atomic_save(default_structure()).
LoadBackup(t) ==
    /\ th[t].pc = "l_backup"
    /\ \/ backups' \in BackupCopy(backups, file.bytes)
       \/ backups' = backups
    /\ Set(t, [th[t] EXCEPT !.pc = "s_acq", !.data = default_structure, !.ctx = "recover"])
    /\ UNCHANGED <<file, tmp, lock, calls, nthreads, hist>>

\* Lines 56-62: the lock is taken and the temporary file created, empty.
SaveAcquire(t) ==
    /\ th[t].pc = "s_acq"
    /\ CanAcquire(lock)
    /\ lock' = t
    /\ tmp' = [tmp EXCEPT ![t] = FileOf(<<>>)]
    /\ Set(t, [th[t] EXCEPT !.pc = "s_dump"])
    /\ UNCHANGED <<file, backups, calls, nthreads, hist>>

\* Lines 58-61 raise OSError: no temporary file; the lock is released.
SaveCreateFail(t) ==
    /\ th[t].pc = "s_acq"
    /\ CanAcquire(lock)
    /\ Set(t, AfterSaveRaise(th[t], "OSError"))
    /\ UNCHANGED <<file, tmp, backups, lock, calls, nthreads, hist>>

\* A dump whose last bytes never reach the temporary file.
TempBytesUnflushed(doc) == SubSeq(JsonDump(doc), 1, Len(JsonDump(doc)) - 1)

\* Lines 63-68: the whole document is written to the temporary file.
TempBytes(doc) == JsonDump(doc)

SaveDump(t) ==
    /\ th[t].pc = "s_dump"
    /\ tmp' = [tmp EXCEPT ![t] = FileOf(TempBytes(th[t].data))]
    /\ Set(t, [th[t] EXCEPT !.pc = "s_replace", !.attempts = 0])
    /\ UNCHANGED <<file, backups, lock, calls, nthreads, hist>>

\* Lines 63-64 raise OSError part-way: the temporary file holds a prefix.
SaveDumpFail(t) ==
    /\ th[t].pc = "s_dump"
    /\ \E k \in {1, Len(JsonDump(th[t].data)) - 1} :
          tmp' = [tmp EXCEPT ![t] = FileOf(SubSeq(JsonDump(th[t].data), 1, k))]
    /\ Set(t, [th[t] EXCEPT !.pc = "s_fin", !.exc = "OSError"])
    /\ UNCHANGED <<file, backups, lock, calls, nthreads, hist>>

\* Line 73: os.replace moves the temporary file onto the target.
Replace(target, temp) == temp

\* Lines 73-74, 80-81: the rename succeeds; no temporary file is left and
\* the lock is released.
SaveReplace(t) ==
    /\ th[t].pc = "s_replace"
    /\ file' = Replace(file, tmp[t])
    /\ tmp' = [tmp EXCEPT ![t] = NoFile]
    /\ lock' = 0
    /\ Set(t, AfterSave(th[t]))
    /\ hist' = IF nthreads = 1 THEN [hist EXCEPT !.saved = th[t].data] ELSE hist
    /\ UNCHANGED <<backups, calls, nthreads>>

\* SaveReplaceBusy that gives up only after more than max_attempts failures.
SaveReplaceBusyOneMore(t) ==
    /\ th[t].pc = "s_replace"
    /\ Set(t, IF th[t].attempts + 1 > max_attempts
              THEN [th[t] EXCEPT !.attempts = @ + 1, !.pc = "s_fin", !.exc = "PermissionError"]
              ELSE [th[t] EXCEPT !.attempts = @ + 1])
    /\ UNCHANGED <<file, tmp, backups, lock, calls, nthreads, hist>>

\* Lines 75-79: PermissionError; another attempt after the sleep, or the
\* error is raised when attempts reaches max_attempts.
SaveReplaceBusy(t) ==
    /\ th[t].pc = "s_replace"
    /\ Set(t, IF th[t].attempts + 1 >= max_attempts
              THEN [th[t] EXCEPT !.attempts = @ + 1, !.pc = "s_fin", !.exc = "PermissionError"]
              ELSE [th[t] EXCEPT !.attempts = @ + 1])
    /\ UNCHANGED <<file, tmp, backups, lock, calls, nthreads, hist>>

\* Line 73 raises an OSError that is no PermissionError: it is not caught.
SaveReplaceError(t) ==
    /\ th[t].pc = "s_replace"
    /\ Set(t, [th[t] EXCEPT !.pc = "s_fin", !.exc = "OSError"])
    /\ UNCHANGED <<file, tmp, backups, lock, calls, nthreads, hist>>

\* Lines 80-85 with an exception pending: the temporary file is unlinked,
\* the lock released, and the exception goes to the caller of atomic_save.
SaveFinally(t) ==
    /\ th[t].pc = "s_fin"
    /\ tmp' = [tmp EXCEPT ![t] = NoFile]
    /\ lock' = 0
    /\ Set(t, AfterSaveRaise(th[t], th[t].exc))
    /\ UNCHANGED <<file, backups, calls, nthreads, hist>>

\* Lines 80-85 with an exception pending and temp_file.unlink() raising: the
\* `except Exception: pass` drops that error, the temporary file stays in
\* the directory, the lock is released, and the pending exception goes on.
\* No later call touches that file: hist.left records that it is there.  The
\* step is taken in the runs of one thread.
SaveFinallyUnlinkFail(t) ==
    /\ nthreads = 1
    /\ th[t].pc = "s_fin"
    /\ tmp[t].exists
    /\ tmp' = [tmp EXCEPT ![t] = NoFile]
    /\ hist' = [hist EXCEPT !.left = TRUE]
    /\ lock' = 0
    /\ Set(t, AfterSaveRaise(th[t], th[t].exc))
    /\ UNCHANGED <<file, backups, calls, nthreads>>

Next ==
    \/ \E t \in Threads : Call(t)
    \/ \E t \in Threads : LoadExists(t)
    \/ \E t \in Threads : LoadAcquire(t)
    \/ \E t \in Threads : LoadOpenFail(t)
    \/ \E t \in Threads : LoadSleep(t)
    \/ \E t \in Threads : LoadRead(t)
    \/ \E t \in Threads : LoadBackup(t)
    \/ \E t \in Threads : SaveAcquire(t)
    \/ \E t \in Threads : SaveCreateFail(t)
    \/ \E t \in Threads : SaveDump(t)
    \/ \E t \in Threads : SaveDumpFail(t)
    \/ \E t \in Threads : SaveReplace(t)
    \/ \E t \in Threads : SaveReplaceBusy(t)
    \/ \E t \in Threads : SaveReplaceError(t)
    \/ \E t \in Threads : SaveFinally(t)
    \/ \E t \in Threads : SaveFinallyUnlinkFail(t)

Spec == Init /\ [][Next]_vars

\* The steps of thread t inside a call.  A thread that can take a step is
\* run by the scheduler; a sleep (lines 78, 117) ends; a thread waiting for
\* file_lock gets it once the lock stays free.
Step(t) ==
    \/ LoadExists(t) \/ LoadAcquire(t) \/ LoadOpenFail(t) \/ LoadRead(t)
    \/ LoadSleep(t) \/ LoadBackup(t)
    \/ SaveAcquire(t) \/ SaveCreateFail(t) \/ SaveDump(t) \/ SaveDumpFail(t)
    \/ SaveReplaceError(t) \/ SaveReplaceBusy(t) \/ SaveReplace(t)
    \/ SaveFinally(t) \/ SaveFinallyUnlinkFail(t)

\* The runs checked for termination: two threads on no file or on bytes that
\* are no JSON, and one thread on no file.
LiveInit ==
    /\ Init
    /\ file \in {NoFile, FileOf(Garbage)}
    /\ nthreads = 1 => file = NoFile

FairSpec == LiveInit /\ [][Next]_vars /\ \A t \in Threads : WF_vars(Step(t))

(***************************************************************************)
(* Properties.                                                             *)
(***************************************************************************)
Idle(t) == th[t].pc = "idle"
RetFalse == Returned(PBool(FALSE))
RetTrue == Returned(PBool(TRUE))
DefaultFile == FileOf(JsonDump(default_structure))

\* The bytes parse and their root is a mapping.
ValidDocument(bytes) == JsonLoad(bytes).ok /\ IsDict(JsonLoad(bytes).val)
CompleteDocument(f) == f.exists /\ ValidDocument(f.bytes)
DocOf(f) == JsonLoad(f.bytes).val

\* The entries document doc holds under category c (none when c is no key).
EntriesOf(doc, c) ==
    IF Has(doc, K_cats) /\ Has(Get(doc, K_cats), c) THEN Val(Get(Get(doc, K_cats), c))
    ELSE <<>>

\* C1 (atomic visibility): the target changes only when the thread that
\* holds the lock renames a temporary file holding the whole serialization of
\* the document passed to its atomic_save, and what the target then holds is
\* one complete document: a reader sees the old content or the new, never a
\* partly written file.
C1_AtomicVisibility ==
    [][file' # file =>
          \E t \in Threads : /\ lock = t
                             /\ tmp[t] = FileOf(JsonDump(th[t].data))
                             /\ file' = tmp[t]
                             /\ CompleteDocument(file')]_vars

\* A save of one thread has failed part-way, leaving a partial temporary
\* file, while the target holds a complete document written by a save.
C1_Witness ==
    \E t \in Threads :
        /\ nthreads = 2
        /\ th[t].pc = "s_fin"
        /\ tmp[t].exists /\ tmp[t].bytes # <<>> /\ ~ValidDocument(tmp[t].bytes)
        /\ CompleteDocument(file) /\ file \notin InitFiles

\* Thread u is between two file accesses of one load_data call: after the
\* existence check and before the open or the bootstrap save, or after the
\* failed parse and before the backup copy or the recovery save.
BetweenAccesses(u) ==
    \/ th[u].pc \in {"l_acq", "l_backup"}
    \/ th[u].pc = "s_acq" /\ th[u].ctx \in {"boot", "recover"}

\* C2 (full-extent serialization): no save takes effect while another thread
\* is between the first and the last file access of a load_data call.
C2_FullExtentSerialization ==
    [][file' # file => \A u \in Threads : ~BetweenAccesses(u)]_vars

InCritical(t) == th[t].pc \in {"l_open", "s_dump", "s_replace", "s_fin"}

\* C3 (lost update, mutual exclusion part): a thread inside the locked part
\* of a load or of a save holds the lock and no other thread is inside one.
C3_MutualExclusion ==
    \A t \in Threads :
        InCritical(t) => lock = t /\ \A u \in Threads \ {t} : ~InCritical(u)

\* C3 (the race): two add_entry calls on category X, the only calls made, have
\* both returned True and the file holds the entry of only one of them.
C3_LostUpdate ==
    /\ nthreads = 2 /\ calls = 2
    /\ \A t \in Threads : Idle(t) /\ th[t].op \in EntryOps /\ th[t].ret = RetTrue
    /\ th[1].op # th[2].op
    /\ CompleteDocument(file)
    /\ Len(EntriesOf(DocOf(file), S("X"))) = 2
    /\ EntriesOf(DocOf(file), S("X"))[1] = EntryC
    /\ EntriesOf(DocOf(file), S("X"))[2] \in {EntryA, EntryB}

\* C4 (write failures are surfaced): when atomic_save has run out of rename
\* attempts and the operation that called it ends, it ends by raising.
C4_WriteFailureSurfaced ==
    [][\A t \in Threads :
          (th[t].pc = "s_fin" /\ th[t].exc = "PermissionError" /\ th'[t].pc = "idle")
              => th'[t].ret = Raised("PermissionError")]_vars

\* C5 (corruption recovery): a load_data call that found a file which is no
\* valid document returns the default document, a backup holds the bytes
\* that failed to load, and the target holds the default document.
C5_CorruptionRecovery ==
    \A t \in Threads :
        (/\ nthreads = 1 /\ Idle(t) /\ th[t].op.fn = "load_data"
         /\ hist.before.exists /\ ~ValidDocument(hist.before.bytes))
            => /\ th[t].ret = Returned(default_structure)
               /\ hist.before.bytes \in backups
               /\ file = DefaultFile

Validating == {"add_category", "delete_category", "add_entry", "delete_entry"}

\* C6 as stated (validation failure writes nothing): after a call that
\* returned False the file is the file the call found.
C6_NoWriteOnFalse ==
    \A t \in Threads :
        (nthreads = 1 /\ Idle(t) /\ th[t].op.fn \in Validating /\ th[t].ret = RetFalse)
            => file = hist.before

\* C6 as amended: after a call that returned False, a file that held a valid
\* document is unchanged; a file that was absent or corrupt is unchanged or
\* holds the default document written by load_data.
C6_ValidationFailure ==
    \A t \in Threads :
        (nthreads = 1 /\ Idle(t) /\ th[t].op.fn \in Validating /\ th[t].ret = RetFalse)
            => \/ file = hist.before
               \/ ~CompleteDocument(hist.before) /\ file = DefaultFile

\* add_category of a category the file already holds has returned False and
\* left the file as it was.
C6_Witness ==
    \E t \in Threads :
        /\ nthreads = 1 /\ Idle(t) /\ th[t].ret = RetFalse
        /\ th[t].op = Op("add_category", <<Str("X")>>)
        /\ CompleteDocument(hist.before)
        /\ EntriesOf(DocOf(hist.before), S("X")) # <<>>
        /\ file = hist.before

\* C7 (out-of-range delete fails): delete_entry with an index outside
\* 0..n-1, n the number of entries the category held, returns False and the
\* file is unchanged.
C7_OutOfRangeDeleteFails ==
    \A t \in Threads :
        (/\ nthreads = 1 /\ Idle(t) /\ th[t].op.fn = "delete_entry"
         /\ CompleteDocument(hist.before)
         /\ th[t].op.a[2] \notin
                0..(Len(EntriesOf(DocOf(hist.before), OrEmptyStrip(th[t].op.a[1]))) - 1))
            => th[t].ret = RetFalse /\ file = hist.before

\* C8 (read exhaustion): load_data never starts an attempt beyond `retries`;
\* when the last attempt has failed it returns the default document and the
\* file is left as it is.
C8_ReadExhaustion ==
    /\ [](\A t \in Threads : th[t].attempt < retries)
    /\ [][\A t \in Threads :
            (/\ th[t].op.fn = "load_data" /\ th[t].pc = "l_sleep"
             /\ th[t].attempt = retries - 1 /\ th'[t] # th[t])
                => /\ th'[t].pc = "idle"
                   /\ th'[t].ret = Returned(default_structure)
                   /\ file' = file]_vars

\* The only call made, load_data on a file holding a document with a
\* category, has returned the default document and the file is unchanged.
C8_Witness ==
    \E t \in Threads :
        /\ nthreads = 1 /\ calls = 1 /\ Idle(t) /\ th[t].op.fn = "load_data"
        /\ th[t].ret = Returned(default_structure)
        /\ file = FileOf(JsonDump(DocWithX))

TopKeys == {K_pd, K_cats, K_settings}
DefaultOf(k) == IF k = K_settings THEN DefaultSettings ELSE PDict(<<>>)

\* Document l is document d with the absent top-level keys at their defaults.
EqualModuloDefaults(l, d) ==
    /\ IsDict(l)
    /\ Keys(l) = Keys(d) \cup TopKeys
    /\ \A k \in Keys(l) : PyEq(Get(l, k), IF Has(d, k) THEN Get(d, k) ELSE DefaultOf(k))

\* C9 (round trip): with one thread, a load_data whose first read succeeds
\* returns the document of the last atomic_save that succeeded, with the
\* absent top-level keys at their defaults.
C9_RoundTrip ==
    [][\A t \in Threads :
          (/\ nthreads = 1 /\ hist.saved # PNone
           /\ th[t].op.fn = "load_data" /\ th[t].pc = "l_open" /\ th[t].attempt = 0
           /\ th'[t].pc = "idle")
              => /\ th'[t].ret[1] = "ret"
                 /\ EqualModuloDefaults(th'[t].ret[2], hist.saved)]_vars

\* load_data has returned, with default settings and profile added, the
\* document with category Y alone that atomic_save was given.
C9_Witness ==
    \E t \in Threads :
        /\ nthreads = 1 /\ Idle(t) /\ th[t].op.fn = "load_data"
        /\ hist.saved # PNone /\ ~Has(hist.saved, K_settings) /\ Has(hist.saved, K_cats)
        /\ th[t].ret[1] = "ret"
        /\ EqualModuloDefaults(th[t].ret[2], hist.saved)
        /\ Get(th[t].ret[2], K_settings) = DefaultSettings
        /\ Has(Get(th[t].ret[2], K_cats), S("Y"))

\* C10 (bootstrap): a load_data call that found no file returns the default
\* document, and after it the file holds the default document.
C10_Bootstrap ==
    \A t \in Threads :
        (nthreads = 1 /\ Idle(t) /\ th[t].op.fn = "load_data" /\ ~hist.before.exists)
            => th[t].ret = Returned(default_structure) /\ file = DefaultFile

\* Document l is document d with every key of d kept as it is and every
\* absent top-level key set to its default.
FilledFrom(l, d) ==
    /\ IsDict(l)
    /\ Keys(l) = Keys(d) \cup TopKeys
    /\ Len(Val(l)) = Cardinality(Keys(l))
    /\ \A k \in Keys(d) : Get(l, k) = Get(d, k)
    /\ \A k \in TopKeys \ Keys(d) : Get(l, k) = DefaultOf(k)

\* C11 (normalization is in-memory only): when load_data reads a file that
\* parses to a mapping lacking some of the three top-level keys, it returns
\* that document with each missing key at its default and every present key
\* unchanged, and the read leaves the file as it was.
C11_NormalizationInMemory ==
    [][\A t \in Threads :
          (/\ th[t].op.fn = "load_data" /\ th[t].pc = "l_open" /\ th'[t].pc = "idle"
           /\ CompleteDocument(file)
           /\ TopKeys \ Keys(DocOf(file)) # {})
              => /\ th'[t].ret[1] = "ret"
                 /\ FilledFrom(th'[t].ret[2], DocOf(file))
                 /\ file' = file]_vars

\* load_data, the only call, has returned the document of a file that held
\* the categories alone, with default settings and an empty profile added,
\* and the file is the file it found.
C11_Witness ==
    \E t \in Threads :
        /\ nthreads = 1 /\ calls = 1 /\ Idle(t) /\ th[t].op.fn = "load_data"
        /\ hist.before = FileOf(JsonDump(DocPartial))
        /\ th[t].ret = Returned(Put(Put(DocPartial, K_settings, DefaultSettings),
                                    K_pd, PDict(<<>>)))
        /\ file = hist.before

\* The categories of the document in file f, and whether c is one of them.
CatsOf(f) == GetOr(DocOf(f), K_cats, PDict(<<>>))
HasCategory(f, c) == CompleteDocument(f) /\ IsDict(CatsOf(f)) /\ Has(CatsOf(f), c)

\* C12 as stated (duplicate category rejected without damage): add_category
\* of a name that is a category of the file returns False and the file,
\* with the category and its entries, is as before the call.
C12_DuplicateRejected ==
    \A t \in Threads :
        (/\ nthreads = 1 /\ Idle(t) /\ th[t].op.fn = "add_category"
         /\ HasCategory(hist.before, OrEmptyStrip(th[t].op.a[1])))
            => th[t].ret = RetFalse /\ file = hist.before

\* C12 as amended: when the load of an add_category call reads a file that
\* holds the category, the call ends there with False and the file, with the
\* category and its entries, stays as it is.
C12_DuplicateRejectedOnRead ==
    [][\A t \in Threads :
          (/\ th[t].op.fn = "add_category" /\ th[t].pc = "l_open"
           /\ th'[t].pc # "l_sleep" /\ th'[t] # th[t]
           /\ HasCategory(file, OrEmptyStrip(th[t].op.a[1])))
              => /\ th'[t].pc = "idle" /\ th'[t].ret = RetFalse
                 /\ file' = file]_vars

\* From no file, add_category(X) and add_entry(X, A) have succeeded, and a
\* second add_category(X) has returned False: the file holds X once, with
\* the entry.
C12_Witness ==
    \E t \in Threads :
        /\ nthreads = 1 /\ calls = 3 /\ Idle(t) /\ th[t].ret = RetFalse
        /\ th[t].op = Op("add_category", <<Str("X")>>)
        /\ file = hist.before
        /\ file = FileOf(JsonDump(Put(default_structure, K_cats,
                                      PDict(<< <<S("X"), PList(<<EntryA>>)>> >>))))

\* The category keys of the document in file f: none when f holds no document.
CatKeys(f) == IF CompleteDocument(f) /\ IsDict(CatsOf(f)) THEN Keys(CatsOf(f)) ELSE {}

\* The step of thread t in which its load_data returns a document to the
\* operation: a read that succeeds, the end of the last failed attempt, or
\* the end of the bootstrap or recovery save.
LoadReturns(t) ==
    \/ /\ th[t].pc = "l_open" /\ th'[t].pc # "l_sleep" /\ th'[t] # th[t]
       /\ ReadResult(file.bytes).kind = "ok"
    \/ th[t].pc = "l_sleep" /\ th[t].attempt = retries - 1 /\ th'[t] # th[t]
    \/ /\ th[t].pc = "s_replace" /\ th[t].ctx \in {"boot", "recover"}
       /\ th'[t].pc \notin {"s_replace", "s_fin"}

\* The document load_data returns in that step.
Loaded(t) ==
    CASE th[t].pc = "l_open"  -> ReadResult(file.bytes).val
      [] th[t].pc = "l_sleep" -> default_structure
      [] OTHER                -> th[t].data

ServiceOps ==
    {"load_data", "set_personal_details", "add_category", "delete_category",
     "add_entry", "delete_entry", "set_settings"}

\* Thread t, running alone, has ended a call of one of the functions fns.
Ended(t, fns) == nthreads = 1 /\ Idle(t) /\ th[t].op.fn \in fns

\* add_entry returns False when the category is no key of the loaded document.
AddEntryNeedsCategory ==
    [][\A t \in Threads :
          (/\ th[t].op.fn = "add_entry" /\ LoadReturns(t)
           /\ OrEmptyStrip(th[t].op.a[1]) \notin Keys(Get(WithCats(Loaded(t)), K_cats)))
              => th'[t].pc = "idle" /\ th'[t].ret = RetFalse]_vars

\* C13 as stated (entries never create categories): add_entry returns False
\* when the category is no key of the loaded document; add_entry and
\* delete_entry leave the category keys of the file as they were; only
\* add_category adds a key and only delete_category removes one.
C13_EntriesNeverCreateCategories ==
    /\ AddEntryNeedsCategory
    /\ [](\A t \in Threads :
            /\ Ended(t, {"add_entry", "delete_entry"})
                  => CatKeys(file) = CatKeys(hist.before)
            /\ Ended(t, ServiceOps \ {"add_category"})
                  => CatKeys(file) \subseteq CatKeys(hist.before)
            /\ Ended(t, ServiceOps \ {"delete_category"})
                  => CatKeys(hist.before) \subseteq CatKeys(file))

\* C13 as amended: add_entry returns False when the category is no key of
\* the loaded document; add_entry, delete_entry and load_data leave the
\* category keys of the file as they were; only add_category adds a key, the
\* one it is given; a key is removed only by delete_category, the one it is
\* given, or by a save that set_settings, set_personal_details or
\* add_category makes of the default document, which has no keys.
C13_CategoryKeys ==
    /\ AddEntryNeedsCategory
    /\ [](\A t \in Threads :
            /\ Ended(t, {"add_entry", "delete_entry", "load_data"})
                  => CatKeys(file) = CatKeys(hist.before)
            /\ Ended(t, {"set_settings", "set_personal_details"})
                  => CatKeys(file) \in {CatKeys(hist.before), {}}
            /\ Ended(t, {"add_category"})
                  => CatKeys(file) \in
                        {CatKeys(hist.before),
                         CatKeys(hist.before) \cup {OrEmptyStrip(th[t].op.a[1])},
                         {OrEmptyStrip(th[t].op.a[1])}}
            /\ Ended(t, {"delete_category"})
                  => CatKeys(file) \in
                        {CatKeys(hist.before), CatKeys(hist.before) \ {Val(th[t].op.a[1])}})

\* add_entry for category Y on a file whose only category is X has
\* returned False, and the file is the file it found.
C13_Witness ==
    \E t \in Threads :
        /\ Ended(t, {"add_entry"}) /\ th[t].ret = RetFalse
        /\ OrEmptyStrip(th[t].op.a[1]) = S("Y") /\ OrEmptyStrip(th[t].op.a[2]) # EmptyStr
        /\ hist.before = FileOf(JsonDump(DocWithX))
        /\ file = hist.before

\* The entries of the document in file f, category by category.
EntryMap(f) == [c \in CatKeys(f) |-> Val(Get(CatsOf(f), c))]
NoEntries == [c \in {} |-> <<>>]

\* The entry an add_entry call o makes, and the category it names.
EntryOf(o) == NewEntry(o.a[2], o.a[3], o.a[4])
CategoryOf(o) == OrEmptyStrip(o.a[1])

\* Thread t's add_entry has returned True: the file holds the entries it
\* held before the call, each at its index and with its fields, and the new
\* entry after the last one of its category.
Appended(t) ==
    /\ CategoryOf(th[t].op) \in CatKeys(hist.before)
    /\ EntryMap(file) =
          [EntryMap(hist.before) EXCEPT ![CategoryOf(th[t].op)] = Append(@, EntryOf(th[t].op))]

\* C14 as stated (append-only insertion, entry immutability): a successful
\* add_entry puts the new entry last in its category and leaves every other
\* entry where and as it was; no operation but delete_entry and
\* delete_category changes or removes an entry the file holds.
C14_AppendOnly ==
    \A t \in Threads :
        /\ (Ended(t, {"add_entry"}) /\ th[t].ret = RetTrue) => Appended(t)
        /\ (Ended(t, {"add_entry"}) /\ th[t].ret # RetTrue)
              => EntryMap(file) = EntryMap(hist.before)
        /\ Ended(t, ServiceOps \ {"add_entry", "delete_entry", "delete_category"})
              => \A c \in CatKeys(hist.before) :
                    c \in CatKeys(file) /\ EntryMap(file)[c] = EntryMap(hist.before)[c]

\* C14 as amended: the same for add_entry and for load_data; a set_settings,
\* set_personal_details or add_category call keeps every entry, or it has
\* saved a document made from the default document and no entry the file
\* held is left.
C14_AppendOnlyUnlessDefaulted ==
    \A t \in Threads :
        /\ (Ended(t, {"add_entry"}) /\ th[t].ret = RetTrue) => Appended(t)
        /\ (Ended(t, {"add_entry"}) /\ th[t].ret # RetTrue)
              => EntryMap(file) = EntryMap(hist.before)
        /\ Ended(t, {"load_data"}) => EntryMap(file) = EntryMap(hist.before)
        /\ Ended(t, {"set_settings", "set_personal_details", "add_category"})
              => \/ \A c \in CatKeys(hist.before) :
                        c \in CatKeys(file) /\ EntryMap(file)[c] = EntryMap(hist.before)[c]
                 \/ \A c \in CatKeys(file) : EntryMap(file)[c] = <<>>

\* add_entry(" X", "B ", L, D) has returned True on a file that held one
\* older entry under X: the file holds that entry, then the new one.
C14_Witness ==
    \E t \in Threads :
        /\ Ended(t, {"add_entry"}) /\ th[t].ret = RetTrue
        /\ hist.before = FileOf(JsonDump(DocWithX))
        /\ EntryMap(file)[S("X")] = <<EntryC, EntryB>>
        /\ EntryC # EntryB /\ Get(EntryC, S("created_at")) # Get(EntryB, S("created_at"))

\* Every entry of the document in file f has a name that is not empty
\* after the strip.
NamedEntries(f) ==
    \A c \in CatKeys(f) : \A i \in 1..Len(EntryMap(f)[c]) :
        /\ Has(EntryMap(f)[c][i], S("name"))
        /\ OrEmptyStrip(Get(EntryMap(f)[c][i], S("name"))) # EmptyStr

\* An add_entry call whose name strips to nothing never comes to its save,
\* and when it has ended it has returned False.
BlankNameRejected ==
    \A t \in Threads :
        (th[t].op.fn = "add_entry" /\ OrEmptyStrip(th[t].op.a[2]) = EmptyStr)
            => /\ th[t].ctx # "op"
               /\ Idle(t) => th[t].ret = RetFalse

\* C15 (entry name invariant): no write to the file, by any thread, stores
\* an entry with an empty name; and when the program starts with no file,
\* add_entry with a name that strips to nothing returns False and stores
\* nothing.
C15_EntryNames ==
    /\ [][file' # file => NamedEntries(file')]_vars
    /\ (file = NoFile) => [](BlankNameRejected)

\* From no file, add_category(X) and add_entry(X, A) have succeeded, then
\* add_entry(X, " ") has returned False: the file holds the entry A alone.
C15_Witness ==
    \E t \in Threads :
        /\ Ended(t, {"add_entry"}) /\ calls = 3 /\ th[t].ret = RetFalse
        /\ CategoryOf(th[t].op) = S("X") /\ th[t].op.a[2] = Blank
        /\ file = hist.before
        /\ EntryMap(file) = [c \in {S("X")} |-> <<EntryA>>]
        /\ NamedEntries(file)

\* The profile and the settings a load of file f gives.
ProfileOf(f) == GetOr(DocOf(f), K_pd, PDict(<<>>))
SettingsOf(f) == GetOr(DocOf(f), K_settings, DefaultSettings)

\* Sequence xs without its element at index i (from 0).
Without(xs, i) == [j \in 1..(Len(xs) - 1) |-> IF j <= i THEN xs[j] ELSE xs[j + 1]]

\* Thread t, alone, has ended delete_entry(category, i) on a file whose
\* category held n entries, 0 <= i < n.
DeleteInRange(t) ==
    /\ Ended(t, {"delete_entry"})
    /\ CategoryOf(th[t].op) \in CatKeys(hist.before)
    /\ th[t].op.a[2] \in 0..(Len(EntryMap(hist.before)[CategoryOf(th[t].op)]) - 1)

\* The file holds what hist.before held, less the entry at the index given
\* to thread t's delete_entry.
RemovedOne(t) ==
    /\ EntryMap(file) =
          [EntryMap(hist.before) EXCEPT ![CategoryOf(th[t].op)] = Without(@, th[t].op.a[2])]
    /\ ProfileOf(file) = ProfileOf(hist.before)
    /\ SettingsOf(file) = SettingsOf(hist.before)

\* C16 as stated (a successful deletion removes exactly one entry):
\* delete_entry with an index in range returns True; the category then holds
\* its former entries less the one at the index, in their order, and the
\* other categories, the profile and the settings are as before.
C16_DeleteRemovesOne ==
    \A t \in Threads : DeleteInRange(t) => th[t].ret = RetTrue /\ RemovedOne(t)

\* C16 as amended: delete_entry with an index in range either returns True
\* with exactly that entry removed and the rest as before, or does not
\* return True and the file is the file it found.
C16_DeleteRemovesOneOrNothing ==
    \A t \in Threads :
        DeleteInRange(t) => \/ th[t].ret = RetTrue /\ RemovedOne(t)
                            \/ th[t].ret # RetTrue /\ file = hist.before

\* delete_entry(X, 0) has returned True on a file that held two entries
\* under X: the file holds the second one alone.
C16_Witness ==
    \E t \in Threads :
        /\ DeleteInRange(t) /\ th[t].ret = RetTrue /\ th[t].op.a[2] = 0
        /\ Len(EntryMap(hist.before)[S("X")]) = 2
        /\ EntryMap(file)[S("X")] = <<EntryMap(hist.before)[S("X")][2]>>
        /\ EntryMap(hist.before)[S("X")][1] # EntryMap(hist.before)[S("X")][2]

\* The file holds what hist.before held, less category c with its entries.
CategoryGone(c) ==
    /\ CatKeys(file) = CatKeys(hist.before) \ {c}
    /\ \A k \in CatKeys(file) : EntryMap(file)[k] = EntryMap(hist.before)[k]
    /\ ProfileOf(file) = ProfileOf(hist.before)
    /\ SettingsOf(file) = SettingsOf(hist.before)

\* Thread t, alone, is in or has ended a delete_category call.
Deleting(t) == nthreads = 1 /\ th[t].op.fn = "delete_category"

\* delete_category of a name that is no key of the document the file held,
\* or of no file, returns False.
AbsentCategoryFalse(t) ==
    (/\ Deleting(t) /\ Idle(t)
     /\ CompleteDocument(hist.before) \/ ~hist.before.exists
     /\ Val(th[t].op.a[1]) \notin CatKeys(hist.before))
        => th[t].ret = RetFalse

\* C17 as stated (category deletion cascade): delete_category of a key of
\* the file returns True with the key and all its entries gone and the rest
\* as before, the file never holding the key with part of its entries; of a
\* name that is no key it returns False.
C17_DeletionCascade ==
    \A t \in Threads :
        /\ (Deleting(t) /\ Val(th[t].op.a[1]) \in CatKeys(hist.before))
              => IF Idle(t) THEN th[t].ret = RetTrue /\ CategoryGone(Val(th[t].op.a[1]))
                 ELSE file = hist.before
        /\ AbsentCategoryFalse(t)

\* C17 as amended: delete_category of a key of the file either returns True
\* with the key and all its entries gone and the rest as before, or does not
\* return True and leaves the file as it found it; during the call the file
\* holds the one or the other; of a name that is no key it returns False.
C17_DeletionCascadeOrNothing ==
    \A t \in Threads :
        /\ (Deleting(t) /\ Val(th[t].op.a[1]) \in CatKeys(hist.before))
              => IF Idle(t)
                 THEN \/ th[t].ret = RetTrue /\ CategoryGone(Val(th[t].op.a[1]))
                      \/ th[t].ret # RetTrue /\ file = hist.before
                 ELSE file = hist.before
        /\ AbsentCategoryFalse(t)

\* delete_category(X) has returned True on a file that held entries under X
\* and a category Y: the file holds Y alone, as it was.
C17_Witness ==
    \E t \in Threads :
        /\ Deleting(t) /\ Idle(t) /\ th[t].ret = RetTrue
        /\ th[t].op.a[1] = Str("X")
        /\ CatKeys(hist.before) = {S("X"), S("Y")}
        /\ EntryMap(hist.before)[S("X")] # <<>>
        /\ CatKeys(file) = {S("Y")}
        /\ EntryMap(file)[S("Y")] = EntryMap(hist.before)[S("Y")]

\* The settings in file f are concrete: columns is 1 or 2, separator a boolean.
ConcreteSettings(f) ==
    /\ IsDict(SettingsOf(f))
    /\ Has(SettingsOf(f), K_columns) /\ Get(SettingsOf(f), K_columns) \in {PInt(1), PInt(2)}
    /\ Has(SettingsOf(f), K_separator) /\ Tag(Get(SettingsOf(f), K_separator)) = "bool"

\* The partial settings given to a set_settings call o.
Partial(o) == o.a[1]

\* C18 (settings invariant): no set_settings call is refused for its input
\* (whatever the columns value, the call resolves it); when the call has
\* returned, the file holds settings with columns 1 or 2 and a boolean
\* separator, and columns is 2 when the call was given a columns value other
\* than 1 and 2.
C18_SettingsInvariant ==
    \A t \in Threads :
        Ended(t, {"set_settings"})
            => /\ th[t].ret # Raised("ValueError")
               /\ th[t].ret = Returned(PNone)
                     => /\ ConcreteSettings(file)
                        /\ (/\ Has(Partial(th[t].op), K_columns)
                            /\ Get(Partial(th[t].op), K_columns) \notin {PInt(1), PInt(2)})
                              => Get(SettingsOf(file), K_columns) = PInt(2)

\* What a load gives for file f, the default document when f holds none.
Stored(f) ==
    IF CompleteDocument(f)
    THEN [entries |-> EntryMap(f), profile |-> ProfileOf(f), settings |-> SettingsOf(f)]
    ELSE [entries |-> NoEntries, profile |-> PDict(<<>>), settings |-> DefaultSettings]

\* The file holds the categories and the profile of b, and b's value for
\* each settings field that the partial settings of call o omit.
KeepsAbsentFields(o, b) ==
    /\ Stored(file).entries = b.entries
    /\ Stored(file).profile = b.profile
    /\ \A k \in {K_columns, K_separator} \ Keys(Partial(o)) :
          Get(Stored(file).settings, k) = Get(b.settings, k)

\* C19 as stated (a partial settings update preserves the absent fields):
\* after set_settings the stored columns is unchanged when the partial
\* omits columns, the stored separator is unchanged when it omits separator,
\* and the categories and the profile are unchanged.
C19_PartialSettings ==
    \A t \in Threads :
        Ended(t, {"set_settings"}) => KeepsAbsentFields(th[t].op, Stored(hist.before))

\* C19 as amended: the same, or the call has saved the default document with
\* the submitted fields: no category, an empty profile, and the default
\* value for each field the partial omits.
C19_PartialSettingsUnlessDefaulted ==
    \A t \in Threads :
        Ended(t, {"set_settings"})
            => \/ KeepsAbsentFields(th[t].op, Stored(hist.before))
               \/ KeepsAbsentFields(th[t].op, Stored(NoFile))

\* set_settings({separator: False}) has returned on a file with an entry and
\* columns 1: the file holds the entry, columns 1 and separator False.
C19_Witness ==
    \E t \in Threads :
        /\ Ended(t, {"set_settings"}) /\ th[t].ret = Returned(PNone)
        /\ Keys(Partial(th[t].op)) = {K_separator}
        /\ CompleteDocument(hist.before)
        /\ Get(SettingsOf(hist.before), K_columns) = PInt(1)
        /\ Get(SettingsOf(hist.before), K_separator) = PBool(TRUE)
        /\ EntryMap(hist.before) = [c \in {S("X")} |-> <<EntryC>>]
        /\ EntryMap(file) = EntryMap(hist.before)
        /\ SettingsOf(file) = PDict(<< <<K_columns, PInt(1)>>, <<K_separator, PBool(FALSE)>> >>)

\* Profile p holds each of the six fields of the submitted details, stripped
\* (empty when not submitted), and today's date as updated_at.
ProfileWritten(p, details) ==
    /\ IsDict(p)
    /\ Keys(p) = {ProfileFields[i] : i \in 1..6} \cup {S("updated_at")}
    /\ \A i \in 1..6 :
          Get(p, ProfileFields[i]) =
             PStr(IF Has(details, ProfileFields[i])
                  THEN Strip(Val(Get(details, ProfileFields[i]))) ELSE EmptyStr)
    /\ Get(p, S("updated_at")) = Today

\* Whatever document load_data returns to set_personal_details, the call
\* goes on to its atomic_save.
ProfileAlwaysSaved ==
    [][\A t \in Threads :
          (th[t].op.fn = "set_personal_details" /\ LoadReturns(t))
              => th'[t].pc = "s_acq" /\ th'[t].ctx = "op"]_vars

\* The file holds the profile thread t submitted, and the categories and
\* the settings of b.
ProfileOver(t, b) ==
    /\ CompleteDocument(file)
    /\ ProfileWritten(ProfileOf(file), th[t].op.a[1])
    /\ Stored(file).entries = b.entries
    /\ Stored(file).settings = b.settings

\* C20 as stated (profile write): set_personal_details always issues a save;
\* when it has returned, the file holds the stripped submitted fields with
\* updated_at today, and the categories and settings it held before.
C20_ProfileWrite ==
    /\ ProfileAlwaysSaved
    /\ [](\A t \in Threads :
            (Ended(t, {"set_personal_details"}) /\ th[t].ret = Returned(PNone))
                => ProfileOver(t, Stored(hist.before)))

\* C20 as amended: the same, or the categories and settings the file holds
\* after the call are those of the default document.
C20_ProfileWriteUnlessDefaulted ==
    /\ ProfileAlwaysSaved
    /\ [](\A t \in Threads :
            (Ended(t, {"set_personal_details"}) /\ th[t].ret = Returned(PNone))
                => \/ ProfileOver(t, Stored(hist.before))
                   \/ ProfileOver(t, Stored(NoFile)))

\* set_personal_details({name: " N "}) has returned on a file with an entry
\* under X: the file holds the name N, today's date, and the entry.
C20_Witness ==
    \E t \in Threads :
        /\ Ended(t, {"set_personal_details"}) /\ th[t].ret = Returned(PNone)
        /\ Get(th[t].op.a[1], S("name")) = PStr(<<" ", "N", " ">>)
        /\ hist.before = FileOf(JsonDump(DocWithX))
        /\ Get(ProfileOf(file), S("name")) = Str("N")
        /\ Get(ProfileOf(file), S("updated_at")) = Today
        /\ EntryMap(file) = [c \in {S("X")} |-> <<EntryC>>]
        /\ SettingsOf(file) = DefaultSettings

\* Thread t is at the rename of its atomic_save, and the step is the rename
\* that succeeds: the lock is released.
RenameSucceeds(t) == th[t].pc = "s_replace" /\ lock = t /\ lock' = 0

\* C21 (bounded save retry): an atomic_save call has made fewer than
\* max_attempts failed renames while it is in its loop; the count of failed
\* renames grows only by a rename that fails with PermissionError, which
\* leaves the target as it is; a rename that succeeds ends the loop; the
\* failure of attempt max_attempts ends it with PermissionError pending, and
\* that error leaves atomic_save with the target unchanged (a direct caller
\* of atomic_save gets it raised).
C21_BoundedSaveRetry ==
    /\ [](\A t \in Threads :
            /\ th[t].attempts <= max_attempts
            /\ th[t].pc = "s_replace" => th[t].attempts < max_attempts)
    /\ [][\A t \in Threads :
            /\ th'[t].attempts > th[t].attempts
                  => /\ th[t].pc = "s_replace" /\ th'[t].attempts = th[t].attempts + 1
                     /\ file' = file
            /\ RenameSucceeds(t)
                  => th'[t].pc \notin {"s_replace", "s_fin"} /\ th'[t].attempts = 0
            /\ (th[t].pc = "s_replace" /\ th'[t].attempts = max_attempts)
                  => th'[t].pc = "s_fin" /\ th'[t].exc = "PermissionError"
            /\ (th[t].pc = "s_fin" /\ th[t].exc = "PermissionError" /\ th'[t] # th[t])
                  => /\ file' = file
                     /\ th[t].op.fn = "atomic_save" => th'[t].ret = Raised("PermissionError")]_vars

\* atomic_save, called alone, has raised PermissionError after max_attempts
\* failed renames, and the target is the file the call found.
C21_Witness ==
    \E t \in Threads :
        /\ Ended(t, {"atomic_save"}) /\ th[t].ret = Raised("PermissionError")
        /\ file = hist.before /\ hist.before.exists
        /\ file # FileOf(JsonDump(th[t].op.a[1]))

\* Thread t is inside an atomic_save call that has created its temporary file.
Saving(t) == th[t].pc \in {"s_dump", "s_replace", "s_fin"}

\* Every atomic_save call that has ended removed the temporary file it made.
NoTempOutsideSave == \A t \in Threads : ~Saving(t) => ~tmp[t].exists

\* C22 (temporary file cleanup): a temporary file exists only while the
\* atomic_save call that created it is running; when the call has returned
\* or raised, by any path, none of its temporary files is left.
C22_TempCleanup == NoTempOutsideSave /\ ~hist.left

\* Thread t's load_data has hit a parse failure and is recovering.
Recovering(t) == th[t].pc = "l_backup" \/ th[t].ctx = "recover"

\* The recovery of thread t's load_data never goes back to reading; its
\* backup step adds at most one backup and goes on to the save of the
\* default document whether the copy was made or not; the save is of the
\* default document.
RecoveryOnce(t) ==
    /\ (Recovering(t) /\ th'[t] # th[t])
          => th'[t].pc \notin {"l_exists", "l_acq", "l_open", "l_sleep", "l_backup"}
    /\ (th[t].pc = "l_backup" /\ th'[t] # th[t])
          => /\ th'[t].pc = "s_acq" /\ th'[t].ctx = "recover"
             /\ th'[t].data = default_structure
             /\ backups' = backups \/ backups' \in BackupCopy(backups, file.bytes)
    /\ (th[t].ctx = "recover" /\ th'[t].ctx = "recover") => th'[t].data = default_structure
    /\ (th[t].ctx = "recover" /\ RenameSucceeds(t))
          => file' = DefaultFile /\ th'[t].ctx # "recover"
    /\ (th[t].ctx = "recover" /\ th'[t] # th[t] /\ file' # file) => RenameSucceeds(t)

\* C23 as stated (one-shot, best-effort recovery): after a parse failure the
\* call never reads the file again, makes one backup attempt and one save of
\* the default document, with or without a backup, and then load_data
\* returns the default document.
C23_OneShotRecovery ==
    [][\A t \in Threads :
          /\ RecoveryOnce(t)
          /\ (th[t].ctx = "recover" /\ th[t].op.fn = "load_data" /\ th'[t].pc = "idle")
                => th'[t].ret = Returned(default_structure) /\ file' = DefaultFile]_vars

\* C23 as amended: the same, but load_data ends by returning the default
\* document after the save, or by raising the error of a save that failed,
\* the file then being as it was.
C23_OneShotRecoveryOrRaise ==
    [][\A t \in Threads :
          /\ RecoveryOnce(t)
          /\ (th[t].ctx = "recover" /\ th[t].op.fn = "load_data" /\ th'[t].pc = "idle")
                => \/ /\ RenameSucceeds(t) /\ file' = DefaultFile
                      /\ th'[t].ret = Returned(default_structure)
                   \/ /\ th[t].pc \in {"s_acq", "s_fin"} /\ file' = file
                      /\ th'[t].ret \in {Raised("OSError"), Raised("PermissionError")}]_vars

\* load_data, the only call, found bytes that are no JSON; its backup copy
\* failed, and it has saved and returned the default document.
C23_Witness ==
    \E t \in Threads :
        /\ Ended(t, {"load_data"}) /\ calls = 1
        /\ hist.before = FileOf(Garbage)
        /\ backups = {}
        /\ file = DefaultFile
        /\ th[t].ret = Returned(default_structure)

\* The functions that change the document, and the result each gives when
\* it has succeeded.
Mutators ==
    {"add_category", "add_entry", "delete_category", "delete_entry",
     "set_settings", "set_personal_details"}
Succeeded(t) ==
    th[t].ret = IF th[t].op.fn \in {"set_settings", "set_personal_details"}
                THEN Returned(PNone) ELSE RetTrue

\* The category a call o is about (none for the settings and the profile).
TargetCategory(o) ==
    CASE o.fn \in {"add_entry", "delete_entry", "add_category"} -> {OrEmptyStrip(o.a[1])}
      [] o.fn = "delete_category" -> {Val(o.a[1])}
      [] OTHER -> {}

\* C24 (mutations preserve unrelated persisted data): in a single thread,
\* after a successful mutation of a file that held a valid document, every
\* category other than the one the call is about is in the file with the
\* entries it had, the profile is as before unless the call is
\* set_personal_details, and the settings are as before unless the call is
\* set_settings, whatever failures the reads of the call's load_data met.
C24_MutationsPreserve ==
    \A t \in Threads :
        (Ended(t, Mutators) /\ Succeeded(t) /\ CompleteDocument(hist.before))
            => /\ \A c \in CatKeys(hist.before) \ TargetCategory(th[t].op) :
                     c \in CatKeys(file) /\ EntryMap(file)[c] = EntryMap(hist.before)[c]
               /\ th[t].op.fn # "set_personal_details"
                     => Stored(file).profile = Stored(hist.before).profile
               /\ th[t].op.fn # "set_settings"
                     => Stored(file).settings = Stored(hist.before).settings

\* C25 (recovery does not clobber a valid write): the save of the default
\* document that a recovery makes never replaces a valid document, which
\* only a save completed after the parse failure can have put there; and
\* the backup a recovery makes never holds a valid document.
C25_RecoveryNoClobber ==
    [][\A t \in Threads :
          /\ (th[t].ctx = "recover" /\ RenameSucceeds(t)) => ~CompleteDocument(file)
          /\ (th[t].pc = "l_backup" /\ th'[t] # th[t] /\ backups' # backups)
                => ~ValidDocument(file.bytes)]_vars

\* file_lock is held exactly by a thread inside the locked part of a load or
\* of a save; a thread about to call atomic_save or to take the lock for a
\* read does not hold it.
LockOnlyInCritical ==
    /\ lock # 0 => lock \in Threads /\ InCritical(lock)
    /\ (\A t \in Threads : ~InCritical(t)) => lock = 0
    /\ \A t \in Threads : th[t].pc \in {"s_acq", "l_acq"} => lock # t

\* C26 (no deadlock, guaranteed termination): file_lock is free whenever no
\* thread is inside a critical section, no thread asks for the lock while it
\* holds it, and every call that has started, whatever failures it meets and
\* whatever the other thread does, returns or raises.
C26_Termination ==
    /\ []LockOnlyInCritical
    /\ \A t \in Threads : (th[t].pc # "idle") ~> (th[t].pc = "idle")

\* One thread holds file_lock inside its save while the other waits for the
\* lock.
C26_Witness ==
    /\ nthreads = 2
    /\ \E t \in Threads : \E u \in Threads \ {t} :
          /\ lock = t /\ th[t].pc = "s_replace" /\ th[t].attempts > 0
          /\ th[u].pc \in {"s_acq", "l_acq"}

=============================================================================
